---------------------------- MODULE Spec2Model ----------------------------
(***************************************************************************)
(* Model of the palanquin converters:                                      *)
(*   pdf_to_latex.py  PDFToLaTeXConverter  (escape_latex,                  *)
(*                    identify_structure, convert_to_latex)                *)
(*   tex_to_pdf.py    LaTeXToPDFConverter  (convert_to_pdf and helpers)    *)
(*                                                                         *)
(* A Python str is a sequence of one-character strings.  The three bullet  *)
(* glyphs are not ASCII and are written as named one-element characters.   *)
(***************************************************************************)
EXTENDS Integers, Sequences, FiniteSets, TLC

VARIABLES
    esc_pc, esc_text, esc_out,
    cls_pc, cls_text, structured_content,
    em_pc, em_blocks, in_itemize, in_subitemize, latex_content, em_result,
    pc, max_passes, verbose, tex_exists, tex_suffix, sibling_pdf,
    temp_dir, pdf_file, log_file_exists, log_file, log_bound, log_content,
    pass_num, returncode, output_pdf, error, errors, history,
    eng_pc, engine_arg, engine, invocable

escVars == <<esc_pc, esc_text, esc_out>>
clsVars == <<cls_pc, cls_text, structured_content>>
emVars == <<em_pc, em_blocks, in_itemize, in_subitemize, latex_content, em_result>>
argVars == <<max_passes, verbose, tex_exists, tex_suffix, sibling_pdf>>
pdfVars == <<pc, argVars, temp_dir, pdf_file, log_file_exists, log_file, log_bound,
             log_content, pass_num, returncode, output_pdf, error, errors, history>>
engVars == <<eng_pc, engine_arg, engine, invocable>>
vars == <<escVars, clsVars, emVars, pdfVars, engVars>>

-----------------------------------------------------------------------------
(* Bounds *)

MaxEscLen == 3
MaxLines == 2
MaxRawLen == 4
MaxBlocks == 3
MaxPassesArg == 3

-----------------------------------------------------------------------------
(* Python str primitives *)

Chars(s) == [i \in 1..Len(s) |-> SubSeq(s, i, i)]

NL == "\n"
BS == "\\"

SeqsUpTo(S, n) == UNION {[1..k -> S] : k \in 0..n}

StartsWith(s, p) ==
    /\ Len(p) <= Len(s)
    /\ SubSeq(s, 1, Len(p)) = p

EndsWith(s, p) ==
    /\ Len(p) <= Len(s)
    /\ SubSeq(s, Len(s) - Len(p) + 1, Len(s)) = p

Contains(s, p) ==
    \E i \in 1..(Len(s) - Len(p) + 1) : SubSeq(s, i, i + Len(p) - 1) = p

RECURSIVE Join(_, _)
Join(parts, sep) ==
    IF parts = <<>> THEN <<>>
    ELSE IF Len(parts) = 1 THEN parts[1]
    ELSE parts[1] \o sep \o Join(Tail(parts), sep)

\* str.split(sep) for a one-character separator: "" splits to [""].
RECURSIVE Split(_, _)
Split(text, sep) ==
    IF \A i \in 1..Len(text) : text[i] # sep THEN <<text>>
    ELSE LET k == CHOOSE i \in 1..Len(text) :
                      text[i] = sep /\ \A j \in 1..(i - 1) : text[j] # sep
         IN  <<SubSeq(text, 1, k - 1)>> \o Split(SubSeq(text, k + 1, Len(text)), sep)

Whitespace == {" ", "\t", NL, "\r", "\f"}

RECURSIVE LStrip(_)
LStrip(s) ==
    IF s # <<>> /\ Head(s) \in Whitespace THEN LStrip(Tail(s)) ELSE s

RECURSIVE RStrip(_)
RStrip(s) ==
    IF s # <<>> /\ s[Len(s)] \in Whitespace THEN RStrip(SubSeq(s, 1, Len(s) - 1)) ELSE s

Strip(s) == RStrip(LStrip(s))

UpperLetters == Chars("ABCDEFGHIJKLMNOPQRSTUVWXYZ")
LowerLetters == Chars("abcdefghijklmnopqrstuvwxyz")

IsUpperChar(c) == \E i \in 1..26 : UpperLetters[i] = c
IsLowerChar(c) == \E i \in 1..26 : LowerLetters[i] = c

LowerChar(c) ==
    IF IsUpperChar(c) THEN LowerLetters[CHOOSE i \in 1..26 : UpperLetters[i] = c] ELSE c

Lower(s) == [i \in 1..Len(s) |-> LowerChar(s[i])]

\* str.isupper(): at least one cased character and no lower-case one.
IsUpper(s) ==
    /\ \E i \in 1..Len(s) : IsUpperChar(s[i])
    /\ \A i \in 1..Len(s) : ~IsLowerChar(s[i])

RECURSIVE Replace(_, _, _)
Replace(text, c, r) ==
    IF text = <<>> THEN <<>>
    ELSE (IF Head(text) = c THEN r ELSE <<Head(text)>>) \o Replace(Tail(text), c, r)

-----------------------------------------------------------------------------
(* PDFToLaTeXConverter.escape_latex *)

latex_special_chars ==
    << <<"&", Chars("\\&")>>,
       <<"%", Chars("\\%")>>,
       <<"$", Chars("\\$")>>,
       <<"#", Chars("\\#")>>,
       <<"^", Chars("\\textasciicircum{}")>>,
       <<"_", Chars("\\_")>>,
       <<"{", Chars("\\{")>>,
       <<"}", Chars("\\}")>>,
       <<"~", Chars("\\textasciitilde{}")>>,
       <<BS,  Chars("\\textbackslash{}")>> >>

RECURSIVE EscapeFrom(_, _)
EscapeFrom(text, i) ==
    IF i > Len(latex_special_chars) THEN text
    ELSE EscapeFrom(Replace(text, latex_special_chars[i][1], latex_special_chars[i][2]), i + 1)

escape_latex(text) == EscapeFrom(text, 1)

-----------------------------------------------------------------------------
(* Escaping: inputs and the call *)

EscAlphabet == {"&", "%", "$", BS, "{", "a"}

EscSample == Chars("100% & $5")

EscInputs == SeqsUpTo(EscAlphabet, MaxEscLen) \cup {EscSample}

EscInit ==
    /\ esc_pc = "ready"
    /\ esc_text \in EscInputs
    /\ esc_out = <<>>

EscapeCall ==
    /\ esc_pc = "ready"
    /\ esc_out' = escape_latex(esc_text)
    /\ esc_pc' = "done"
    /\ UNCHANGED <<esc_text, clsVars, emVars, pdfVars, engVars>>

-----------------------------------------------------------------------------
(* Escaping properties *)

\* The single-pass substitution: every character replaced once by its table
\* entry, nothing introduced by a replacement looked at again.
TableEntry(c) ==
    IF \E i \in 1..Len(latex_special_chars) : latex_special_chars[i][1] = c
    THEN latex_special_chars[CHOOSE i \in 1..Len(latex_special_chars) :
                                 latex_special_chars[i][1] = c][2]
    ELSE <<c>>

RECURSIVE SubstituteOnce(_)
SubstituteOnce(text) ==
    IF text = <<>> THEN <<>>
    ELSE TableEntry(Head(text)) \o SubstituteOnce(Tail(text))

\* C8: escape_latex("100% & $5") contains '%', '&' and '$' only in the
\* substituted forms '\%', '\&', '\$': each occurrence is immediately preceded
\* by its escaping backslash, and the result is exactly the input with the
\* three characters substituted.
C8_SampleEscaped ==
    (esc_pc = "done" /\ esc_text = EscSample) =>
        /\ \A i \in 1..Len(esc_out) :
               esc_out[i] \in {"%", "&", "$"} => (i > 1 /\ esc_out[i - 1] = BS)
        /\ esc_out = Chars("100\\% \\& \\$5")

\* C9: for every input no backslash introduced by a replacement is escaped
\* again, i.e. the result is the single-pass substitution of the input (the
\* escape of "&" is exactly "\&").
C9_NoReEscape ==
    esc_pc = "done" => esc_out = SubstituteOnce(esc_text)

-----------------------------------------------------------------------------
(* PDFToLaTeXConverter: structure classification *)

BlackCircle == "U+25CF"
Bullet      == "U+2022"
WhiteCircle == "U+25CB"

is_title(line, all_lines) ==
    \/ Len(line) < 50 /\ IsUpper(line)
    \/ Contains(line, Chars("App"))
    \/ Contains(line, Chars("System"))
    \/ Contains(line, Chars("Project"))

section_keywords ==
    << Chars("Summary"), Chars("Features"), Chars("Introduction"), Chars("Overview"),
       Chars("Requirements"), Chars("Implementation"), Chars("Conclusion") >>

is_section_heading(line) ==
    LET lowered == Lower(line)
    IN  /\ \E k \in 1..Len(section_keywords) :
               Contains(lowered, Lower(section_keywords[k]))
        /\ Len(line) < 50

is_subsection_heading(line) ==
    EndsWith(line, <<":">>) /\ Len(line) < 80

is_primary_bullet(line) ==
    \/ StartsWith(line, <<BlackCircle>>)
    \/ StartsWith(line, <<Bullet>>)
    \/ StartsWith(line, <<"-", " ">>)

is_secondary_bullet(line) ==
    \/ StartsWith(line, <<WhiteCircle>>)
    \/ StartsWith(line, <<" ", " ", WhiteCircle>>)
    \/ StartsWith(line, <<" ", " ", " ", " ", WhiteCircle>>)

\* re.sub(r'^[\s]*[bullets\-]\s*', '', line).strip()
clean_bullet_text(line) ==
    LET rest == LStrip(line)
    IN  IF rest # <<>> /\ Head(rest) \in {BlackCircle, Bullet, WhiteCircle, "-"}
        THEN Strip(LStrip(Tail(rest)))
        ELSE Strip(line)

\* The rule chain with the bullet rules tried before the heading rules.
ClassifyLineBulletsFirst(line, lines) ==
    IF is_primary_bullet(line) THEN <<"bullet1", clean_bullet_text(line)>>
    ELSE IF is_secondary_bullet(line) THEN <<"bullet2", clean_bullet_text(line)>>
    ELSE IF is_title(line, lines) THEN <<"title", line>>
    ELSE IF is_section_heading(line) THEN <<"section", line>>
    ELSE IF is_subsection_heading(line) THEN <<"subsection", line>>
    ELSE <<"paragraph", line>>

\* The body of the loop for one stripped, non-empty line.
ClassifyLine(line, lines) ==
    IF is_title(line, lines) THEN <<"title", line>>
    ELSE IF is_section_heading(line) THEN <<"section", line>>
    ELSE IF is_subsection_heading(line) THEN <<"subsection", line>>
    ELSE IF is_primary_bullet(line) THEN <<"bullet1", clean_bullet_text(line)>>
    ELSE IF is_secondary_bullet(line) THEN <<"bullet2", clean_bullet_text(line)>>
    ELSE <<"paragraph", line>>

RECURSIVE StructureLoop(_, _, _)
StructureLoop(lines, i, acc) ==
    IF i > Len(lines) THEN acc
    ELSE LET line == Strip(lines[i])
         IN  IF line = <<>> THEN StructureLoop(lines, i + 1, acc)
             ELSE StructureLoop(lines, i + 1, Append(acc, ClassifyLine(line, lines)))

\* The loop without the skip of empty lines.
RECURSIVE StructureLoopNoSkip(_, _, _)
StructureLoopNoSkip(lines, i, acc) ==
    IF i > Len(lines) THEN acc
    ELSE StructureLoopNoSkip(lines, i + 1,
                             Append(acc, ClassifyLine(Strip(lines[i]), lines)))

identify_structure_NoSkip(text) == StructureLoopNoSkip(Split(text, NL), 1, <<>>)

identify_structure(text) == StructureLoop(Split(text, NL), 1, <<>>)

-----------------------------------------------------------------------------
(* Classification: inputs and the call *)

LongFiller == [i \in 1..50 |-> "x"]

ClsLinePool ==
    { <<>>,
      Chars("  "),
      Chars("INTRO"),
      Chars("My App"),
      Chars(" Summary\r"),
      Chars("Notes:"),
      <<BlackCircle>> \o Chars(" item"),
      <<BlackCircle>>,
      Chars("- item"),
      Chars("-item"),
      <<Bullet>> \o Chars(" Overview"),
      <<BlackCircle>> \o Chars(" System check"),
      <<WhiteCircle>> \o Chars(" sub"),
      Chars("  ") \o <<WhiteCircle>> \o Chars(" sub item"),
      <<WhiteCircle>> \o Chars(" steps:"),
      Chars("plain text"),
      Chars("Summary ") \o LongFiller,
      Chars("LOUD ") \o [i \in 1..50 |-> "X"],
      LongFiller \o LongFiller \o Chars(":") }

\* One line for every combination of the rules that can hold together: a
\* bullet glyph or none, a body that is a title, a section, both or neither,
\* and a closing colon or none.
ClsComboLines ==
    { (glyph \o body) \o colon :
          glyph \in { <<>>, <<BlackCircle, " ">>, <<Bullet>>, <<"-", " ">>, <<WhiteCircle, " ">> },
          body  \in { Chars("App Summary"), Chars("My Project"), Chars("key features"),
                      Chars("plain") },
          colon \in { <<>>, <<":">> } }

ClsInputs ==
    ({ Join(ls, <<NL>>) : ls \in SeqsUpTo(ClsLinePool, MaxLines) }
        \cup SeqsUpTo({NL, " ", "a"}, MaxRawLen))
        \cup ClsComboLines

ClsInit ==
    /\ cls_pc = "ready"
    /\ cls_text \in ClsInputs
    /\ structured_content = <<>>

IdentifyCall ==
    /\ cls_pc = "ready"
    /\ structured_content' = identify_structure(cls_text)
    /\ cls_pc' = "done"
    /\ UNCHANGED <<cls_text, escVars, emVars, pdfVars, engVars>>

-----------------------------------------------------------------------------
(* Classification properties *)

\* Only whitespace lies between position i and the start of its line.
RECURSIVE BlankBack(_, _)
BlankBack(text, i) ==
    \/ i = 0
    \/ text[i] = NL
    \/ (text[i] \in Whitespace /\ BlankBack(text, i - 1))

\* Position i holds the first non-whitespace character of its line.
StartsContent(text, i) ==
    /\ text[i] \notin Whitespace
    /\ BlankBack(text, i - 1)

ContentStarts(text) == {i \in 1..Len(text) : StartsContent(text, i)}

\* The last position of the line that position i lies on.
RECURSIVE LineEnd(_, _)
LineEnd(text, i) ==
    IF i = Len(text) \/ text[i + 1] = NL THEN i ELSE LineEnd(text, i + 1)

\* The last non-whitespace position at or before k.
RECURSIVE ContentEnd(_, _)
ContentEnd(text, k) ==
    IF text[k] \notin Whitespace THEN k ELSE ContentEnd(text, k - 1)

\* The stripped text of the line whose content starts at position i.
ContentAt(text, i) == SubSeq(text, i, ContentEnd(text, LineEnd(text, i)))

\* The n-th smallest element of a finite set of integers.
NthOf(S, n) == CHOOSE x \in S : Cardinality({y \in S : y < x}) = n - 1

\* C10: identify_structure returns one block per line that is non-empty after
\* stripping, in the order of the lines: the sequence has as many blocks as
\* there are such lines, and the n-th block carries the n-th such line (its
\* text, or its bullet-cleaned text for a bullet block).
C10_OneBlockPerLine ==
    cls_pc = "done" =>
        LET starts == ContentStarts(cls_text)
        IN  /\ Len(structured_content) = Cardinality(starts)
            /\ \A n \in 1..Len(structured_content) :
                   LET line == ContentAt(cls_text, NthOf(starts, n))
                   IN  structured_content[n][2] =
                           IF structured_content[n][1] \in {"bullet1", "bullet2"}
                           THEN clean_bullet_text(line) ELSE line

C10_Witness ==
    /\ cls_pc = "done"
    /\ Len(Split(cls_text, NL)) = 2
    /\ Len(structured_content) = 1
    /\ structured_content[1][1] = "bullet2"

\* The rules in their fixed order, and whether rule k holds for a line.
RuleKinds == <<"title", "section", "subsection", "bullet1", "bullet2">>

RuleHolds(k, line) ==
    CASE k = 1 -> is_title(line, <<>>)
      [] k = 2 -> is_section_heading(line)
      [] k = 3 -> is_subsection_heading(line)
      [] k = 4 -> is_primary_bullet(line)
      [] k = 5 -> is_secondary_bullet(line)

RulesHolding(line) == {k \in 1..5 : RuleHolds(k, line)}

\* C11: classification is total and first-match-wins: every block has one of
\* the six kinds, it is the kind of the earliest rule (Title, Section,
\* Subsection, Bullet1, Bullet2) that holds for its line whatever other rules
\* hold as well, and it is Paragraph exactly when no rule holds.
C11_FirstMatchWins ==
    cls_pc = "done" =>
        \A n \in 1..Len(structured_content) :
            LET starts == ContentStarts(cls_text)
                line == ContentAt(cls_text, NthOf(starts, n))
                kind == structured_content[n][1]
                held == RulesHolding(line)
            IN  /\ kind \in {RuleKinds[k] : k \in 1..5} \cup {"paragraph"}
                /\ (kind = "paragraph") <=> (held = {})
                /\ held # {} =>
                       \E k \in held : kind = RuleKinds[k] /\ \A j \in held : k <= j

\* A line that starts with a bullet glyph and also satisfies the Section and
\* the Subsection rule is classified as a section.
C11_Witness ==
    /\ cls_pc = "done"
    /\ Len(structured_content) = 1
    /\ RulesHolding(Strip(cls_text)) = {2, 3, 4}
    /\ structured_content[1][1] = "section"

-----------------------------------------------------------------------------
(* PDFToLaTeXConverter.convert_to_latex *)

BeginItemize == Chars("\\begin{itemize}")
EndItemize   == Chars("\\end{itemize}")
EndDocument  == Chars("\\end{document}")

DocumentHeader ==
    << Chars("\\documentclass[11pt,a4paper]{article}"),
       Chars("\\usepackage[utf8]{inputenc}"),
       Chars("\\usepackage[T1]{fontenc}"),
       Chars("\\usepackage{geometry}"),
       Chars("\\usepackage{enumitem}"),
       Chars("\\usepackage{parskip}"),
       Chars("\\geometry{margin=1in}"),
       <<>>,
       Chars("\\begin{document}"),
       <<>> >>

\* Only the primary list closed.
CloseListsPrimaryOnly(content, sub, item) ==
    content \o (IF item THEN <<EndItemize>> ELSE <<>>)

\* "Close any open lists": the secondary list first, then the primary one.
CloseLists(content, sub, item) ==
    (content \o (IF sub THEN <<EndItemize>> ELSE <<>>))
             \o (IF item THEN <<EndItemize>> ELSE <<>>)

\* A title that forgets the open lists.
EmitTitleResets(c) ==
    /\ em_pc = "loop" /\ Len(em_blocks) < MaxBlocks
    /\ em_blocks' = Append(em_blocks, <<"title", c>>)
    /\ latex_content' = latex_content \o
           << Chars("\\title{") \o escape_latex(c) \o Chars("}"),
              Chars("\\maketitle"), <<>> >>
    /\ in_itemize' = FALSE
    /\ in_subitemize' = FALSE
    /\ UNCHANGED <<em_pc, em_result, escVars, clsVars, pdfVars, engVars>>

EmitTitle(c) ==
    /\ em_pc = "loop" /\ Len(em_blocks) < MaxBlocks
    /\ em_blocks' = Append(em_blocks, <<"title", c>>)
    /\ latex_content' = latex_content \o
           << Chars("\\title{") \o escape_latex(c) \o Chars("}"),
              Chars("\\maketitle"), <<>> >>
    /\ UNCHANGED <<em_pc, in_itemize, in_subitemize, em_result, escVars, clsVars, pdfVars, engVars>>

EmitSection(c) ==
    /\ em_pc = "loop" /\ Len(em_blocks) < MaxBlocks
    /\ em_blocks' = Append(em_blocks, <<"section", c>>)
    /\ latex_content' = CloseLists(latex_content, in_subitemize, in_itemize) \o
           << Chars("\\section{") \o escape_latex(c) \o Chars("}"), <<>> >>
    /\ in_subitemize' = FALSE
    /\ in_itemize' = FALSE
    /\ UNCHANGED <<em_pc, em_result, escVars, clsVars, pdfVars, engVars>>

EmitSubsection(c) ==
    /\ em_pc = "loop" /\ Len(em_blocks) < MaxBlocks
    /\ em_blocks' = Append(em_blocks, <<"subsection", c>>)
    /\ latex_content' = CloseLists(latex_content, in_subitemize, in_itemize) \o
           << Chars("\\subsection{") \o escape_latex(c) \o Chars("}"), <<>> >>
    /\ in_subitemize' = FALSE
    /\ in_itemize' = FALSE
    /\ UNCHANGED <<em_pc, em_result, escVars, clsVars, pdfVars, engVars>>

\* A primary bullet that opens a list of its own every time.
EmitBullet1Reopens(c) ==
    /\ em_pc = "loop" /\ Len(em_blocks) < MaxBlocks
    /\ em_blocks' = Append(em_blocks, <<"bullet1", c>>)
    /\ latex_content' =
           ((latex_content \o (IF in_subitemize THEN <<EndItemize>> ELSE <<>>))
                           \o <<BeginItemize>>)
                           \o << Chars("\\item ") \o escape_latex(c) >>
    /\ in_subitemize' = FALSE
    /\ in_itemize' = TRUE
    /\ UNCHANGED <<em_pc, em_result, escVars, clsVars, pdfVars, engVars>>

EmitBullet1(c) ==
    /\ em_pc = "loop" /\ Len(em_blocks) < MaxBlocks
    /\ em_blocks' = Append(em_blocks, <<"bullet1", c>>)
    /\ latex_content' =
           ((latex_content \o (IF in_subitemize THEN <<EndItemize>> ELSE <<>>))
                           \o (IF ~in_itemize THEN <<BeginItemize>> ELSE <<>>))
                           \o << Chars("\\item ") \o escape_latex(c) >>
    /\ in_subitemize' = FALSE
    /\ in_itemize' = TRUE
    /\ UNCHANGED <<em_pc, em_result, escVars, clsVars, pdfVars, engVars>>

\* A secondary bullet that opens the primary list when it is closed.
EmitBullet2OpensPrimary(c) ==
    /\ em_pc = "loop" /\ Len(em_blocks) < MaxBlocks
    /\ em_blocks' = Append(em_blocks, <<"bullet2", c>>)
    /\ latex_content' =
           ((latex_content \o (IF ~in_itemize THEN <<BeginItemize>> ELSE <<>>))
                           \o (IF ~in_subitemize THEN <<BeginItemize>> ELSE <<>>))
                           \o << Chars("\\item ") \o escape_latex(c) >>
    /\ in_itemize' = TRUE
    /\ in_subitemize' = TRUE
    /\ UNCHANGED <<em_pc, em_result, escVars, clsVars, pdfVars, engVars>>

EmitBullet2(c) ==
    /\ em_pc = "loop" /\ Len(em_blocks) < MaxBlocks
    /\ em_blocks' = Append(em_blocks, <<"bullet2", c>>)
    /\ latex_content' =
           (latex_content \o (IF ~in_subitemize THEN <<BeginItemize>> ELSE <<>>))
                          \o << Chars("\\item ") \o escape_latex(c) >>
    /\ in_subitemize' = TRUE
    /\ UNCHANGED <<em_pc, in_itemize, em_result, escVars, clsVars, pdfVars, engVars>>

EmitParagraph(c) ==
    /\ em_pc = "loop" /\ Len(em_blocks) < MaxBlocks
    /\ em_blocks' = Append(em_blocks, <<"paragraph", c>>)
    /\ latex_content' = CloseLists(latex_content, in_subitemize, in_itemize) \o
           << escape_latex(c), <<>> >>
    /\ in_subitemize' = FALSE
    /\ in_itemize' = FALSE
    /\ UNCHANGED <<em_pc, em_result, escVars, clsVars, pdfVars, engVars>>

\* "Close any remaining open lists": the flags are not reset here.
CloseRemainingSecondaryLeftOpen(content, sub, item) ==
    content \o (IF item THEN <<EndItemize>> ELSE <<>>)

CloseRemaining(content, sub, item) ==
    (content \o (IF sub THEN <<EndItemize>> ELSE <<>>))
             \o (IF item THEN <<EndItemize>> ELSE <<>>)

\* End of the block sequence: closing lists, footer, join.
EmitFinish ==
    /\ em_pc = "loop"
    /\ latex_content' =
           CloseRemaining(latex_content, in_subitemize, in_itemize) \o << <<>>, EndDocument >>
    /\ em_result' = Join(latex_content', <<NL>>)
    /\ em_pc' = "done"
    /\ UNCHANGED <<em_blocks, in_itemize, in_subitemize, escVars, clsVars, pdfVars, engVars>>

EmContents == { Chars("a&"), EndItemize }

EmInit ==
    /\ em_pc = "loop"
    /\ em_blocks = <<>>
    /\ in_itemize = FALSE
    /\ in_subitemize = FALSE
    /\ latex_content = DocumentHeader
    /\ em_result = <<>>

EmNext ==
    \/ \E c \in EmContents : EmitTitle(c)
    \/ \E c \in EmContents : EmitSection(c)
    \/ \E c \in EmContents : EmitSubsection(c)
    \/ \E c \in EmContents : EmitBullet1(c)
    \/ \E c \in EmContents : EmitBullet2(c)
    \/ \E c \in EmContents : EmitParagraph(c)
    \/ EmitFinish

-----------------------------------------------------------------------------
(* Emitter properties *)

\* Number of occurrences of the command text p in the string s.
CountSub(s, p) ==
    Cardinality({i \in 1..(Len(s) - Len(p) + 1) : SubSeq(s, i, i + Len(p) - 1) = p})

\* Opens minus closes among the first n lines of the output.
Balance(lines, n) ==
    Cardinality({i \in 1..n : lines[i] = BeginItemize})
        - Cardinality({i \in 1..n : lines[i] = EndItemize})

\* C1: for every block sequence the returned markup has no unclosed list: it
\* holds as many list-open as list-close commands, and every list is closed
\* on the lines that precede the document closing, which ends the markup.
C1_NoUnclosedList ==
    em_pc = "done" =>
        /\ CountSub(em_result, BeginItemize) = CountSub(em_result, EndItemize)
        /\ latex_content[Len(latex_content)] = EndDocument
        /\ Balance(latex_content, Len(latex_content) - 1) = 0
        /\ EndsWith(em_result, EndDocument)

C1_Witness ==
    /\ em_pc = "done"
    /\ in_itemize /\ in_subitemize
    /\ CountSub(em_result, EndItemize) = 2

\* A step that processes one block of one of the given kinds.
Processed(kinds) ==
    /\ em_pc = "loop"
    /\ Len(em_blocks') = Len(em_blocks) + 1
    /\ em_blocks'[Len(em_blocks')][1] \in kinds

\* The lines the step appends to the output.
Emitted == SubSeq(latex_content', Len(latex_content) + 1, Len(latex_content'))

OutputKept == SubSeq(latex_content', 1, Len(latex_content)) = latex_content

CountLines(lines, l) == Cardinality({i \in 1..Len(lines) : lines[i] = l})

OpenLists == (IF in_itemize THEN 1 ELSE 0) + (IF in_subitemize THEN 1 ELSE 0)

ItemLine(c) == Chars("\\item ") \o escape_latex(c)

\* The first line a section, subsection or paragraph block emits of its own.
OwnLine(block) ==
    CASE block[1] = "section"    -> (Chars("\\section{") \o escape_latex(block[2])) \o <<"}">>
      [] block[1] = "subsection" -> (Chars("\\subsection{") \o escape_latex(block[2])) \o <<"}">>
      [] block[1] = "paragraph"  -> escape_latex(block[2])

LastKinds(n) == [i \in 1..n |-> em_blocks[Len(em_blocks) - n + i][1]]

\* C16: a Section, Subsection or Paragraph block leaves both list flags
\* false and emits one list-close per list that was open, all of them before
\* its own heading or text, which a blank line follows.
C16_HeadingClosesLists ==
    [][ Processed({"section", "subsection", "paragraph"}) =>
            /\ ~in_itemize' /\ ~in_subitemize'
            /\ OutputKept
            /\ Len(Emitted) = OpenLists + 2
            /\ \A i \in 1..OpenLists : Emitted[i] = EndItemize
            /\ CountLines(Emitted, EndItemize) = OpenLists
            /\ Emitted[OpenLists + 1] = OwnLine(em_blocks'[Len(em_blocks')])
            /\ Emitted[OpenLists + 2] = <<>> ]_vars

C16_Witness ==
    /\ em_pc = "loop"
    /\ Len(em_blocks) = 3
    /\ LastKinds(3) = <<"bullet1", "bullet2", "section">>
    /\ ~in_itemize /\ ~in_subitemize
    /\ latex_content[Len(latex_content) - 3] = EndItemize
    /\ latex_content[Len(latex_content) - 2] = EndItemize

\* C17: a Bullet1 block ends with the primary list open and the secondary
\* closed; it emits a list-close iff the secondary list was open, then a
\* list-open iff the primary list was not open, then exactly one list-item.
C17_Bullet1 ==
    [][ Processed({"bullet1"}) =>
            LET closes == IF in_subitemize THEN 1 ELSE 0
                opens  == IF in_itemize THEN 0 ELSE 1
            IN  /\ in_itemize' /\ ~in_subitemize'
                /\ OutputKept
                /\ Len(Emitted) = closes + opens + 1
                /\ CountLines(Emitted, EndItemize) = closes
                /\ CountLines(Emitted, BeginItemize) = opens
                /\ closes = 1 => Emitted[1] = EndItemize
                /\ opens = 1 => Emitted[closes + 1] = BeginItemize
                /\ Emitted[Len(Emitted)] = ItemLine(em_blocks'[Len(em_blocks')][2]) ]_vars

\* Two consecutive Bullet1 blocks in one primary list.
C17_Witness ==
    /\ em_pc = "loop"
    /\ Len(em_blocks) = 2
    /\ LastKinds(2) = <<"bullet1", "bullet1">>
    /\ in_itemize /\ ~in_subitemize
    /\ CountLines(latex_content, BeginItemize) = 1

\* C18: a Bullet2 block leaves the primary flag as it was and ends with the
\* secondary list open, emitting a list-open iff the secondary list was not
\* open, no list-close, and one list-item.
C18_Bullet2 ==
    [][ Processed({"bullet2"}) =>
            LET opens == IF in_subitemize THEN 0 ELSE 1
            IN  /\ in_itemize' = in_itemize
                /\ in_subitemize'
                /\ OutputKept
                /\ Len(Emitted) = opens + 1
                /\ CountLines(Emitted, BeginItemize) = opens
                /\ CountLines(Emitted, EndItemize) = 0
                /\ Emitted[Len(Emitted)] = ItemLine(em_blocks'[Len(em_blocks')][2]) ]_vars

\* The secondary list open while the primary list is closed.
C18_Witness ==
    /\ em_pc = "loop"
    /\ em_blocks # <<>>
    /\ LastKinds(1) = <<"bullet2">>
    /\ in_subitemize /\ ~in_itemize

\* C19: after every processed block the list-opens emitted so far minus the
\* list-closes emitted so far equal the number of true list flags; no prefix
\* of the output has more closes than opens or more than 2 lists open; a
\* Title block changes neither flag.
C19_BalanceMatchesFlags ==
    /\ [](/\ em_pc = "loop" => Balance(latex_content, Len(latex_content)) = OpenLists
          /\ \A n \in 0..Len(latex_content) : Balance(latex_content, n) \in 0..2)
    /\ [][ Processed({"title"}) =>
               (in_itemize' = in_itemize /\ in_subitemize' = in_subitemize) ]_vars

C19_Witness ==
    /\ em_pc = "loop"
    /\ Len(em_blocks) = 3
    /\ LastKinds(3) = <<"bullet1", "bullet2", "title">>
    /\ in_itemize /\ in_subitemize
    /\ Balance(latex_content, Len(latex_content)) = 2

-----------------------------------------------------------------------------
(* LaTeXToPDFConverter: log parsing *)

\* The context cut off at the triggering line.
ErrorContextNoTrailing(lines, i) ==
    LET start == IF i - 2 > 1 THEN i - 2 ELSE 1
    IN  Join(SubSeq(lines, start, i), <<NL>>)

\* lines[a..b] of a 1-based line list, joined the way the error block is.
ErrorContext(lines, i) ==
    LET start == IF i - 2 > 1 THEN i - 2 ELSE 1
        end   == IF i + 2 < Len(lines) THEN i + 2 ELSE Len(lines)
    IN  Join(SubSeq(lines, start, end), <<NL>>)

IsErrorLine(line) == StartsWith(line, <<"!">>) \/ Contains(line, Chars("Error:"))

RECURSIVE ErrorsFrom(_, _)
ErrorsFrom(lines, i) ==
    IF i > Len(lines) THEN <<>>
    ELSE (IF IsErrorLine(lines[i]) THEN <<ErrorContext(lines, i)>> ELSE <<>>)
             \o ErrorsFrom(lines, i + 1)

\* The errors half of _parse_latex_errors.
parse_latex_errors(log) == ErrorsFrom(Split(log, NL), 1)

IsWarningLine(line) ==
    /\ ~IsErrorLine(line)
    /\ \/ Contains(line, Chars("Warning:"))
       \/ StartsWith(line, Chars("LaTeX Warning:"))

RECURSIVE WarningsFrom(_, _)
WarningsFrom(lines, i) ==
    IF i > Len(lines) THEN <<>>
    ELSE (IF IsWarningLine(lines[i]) THEN <<Strip(lines[i])>> ELSE <<>>)
             \o WarningsFrom(lines, i + 1)

\* The warnings half of _parse_latex_errors.
parse_latex_warnings(log) == WarningsFrom(Split(log, NL), 1)

rerun_indicators ==
    << Chars("Rerun to get cross-references right"),
       Chars("Label(s) may have changed"),
       Chars("Rerun LaTeX"),
       Chars("Table widths have changed") >>

needs_multiple_passes(log) ==
    \E k \in 1..Len(rerun_indicators) : Contains(log, rerun_indicators[k])

-----------------------------------------------------------------------------
(* LaTeXToPDFConverter.convert_to_pdf *)

\* Logs the engine may leave in the scratch directory.
LogClean ==
    Join(<< Chars("This is pdfTeX"), Chars("(./doc.tex)"),
            Chars("Output written on doc.pdf (1 page).") >>, <<NL>>)

LogRerun ==
    Join(<< Chars("This is pdfTeX"),
            Chars("LaTeX Warning: Label(s) may have changed. Rerun to get cross-references right."),
            Chars("Output written on doc.pdf (1 page).") >>, <<NL>>)

LogUndefined ==
    Join(<< Chars("This is pdfTeX"), Chars("(./doc.tex"),
            Chars("! Undefined control sequence."), Chars("l.5 \\foo"), <<>>,
            Chars("No pages of output.") >>, <<NL>>)

LogRerunThenStop ==
    Join(<< Chars("Package longtable Warning: Table widths have changed. Rerun LaTeX."),
            Chars("! Emergency stop.") >>, <<NL>>)

LogTypeout ==
    Join(<< Chars("This is pdfTeX"), Chars("Error: see the manual"),
            Chars("Output written on doc.pdf (1 page).") >>, <<NL>>)

LogPool == {LogClean, LogRerun, LogUndefined, LogRerunThenStop, LogTypeout}

ExitCodes == {0, 1}

\* tempfile.TemporaryDirectory.__exit__: the directory and all it holds go
\* away when the with block is left, by return or by exception.
TeardownLeavesDir(dir) == dir

Teardown(dir) == IF dir = "exists" THEN "removed" ELSE dir

\* Leaving the with block by an exception.
RaiseInScratch(e) ==
    /\ pc' = "raised"
    /\ error' = e
    /\ temp_dir' = Teardown(temp_dir)
    /\ pdf_file' = "absent"
    /\ log_file_exists' = FALSE
    /\ log_file' = <<>>

PdfInit ==
    /\ pc = "call"
    /\ max_passes \in 0..MaxPassesArg
    /\ verbose \in BOOLEAN
    /\ tex_exists \in BOOLEAN
    /\ tex_suffix \in {".tex", ".TEX", ".txt"}
    /\ sibling_pdf \in BOOLEAN
    /\ temp_dir = "none"
    /\ pdf_file = "absent"
    /\ log_file_exists = FALSE
    /\ log_file = <<>>
    /\ log_bound = FALSE
    /\ log_content = <<>>
    /\ pass_num = 0
    /\ returncode = 0
    /\ output_pdf = "unchanged"
    /\ error = "none"
    /\ errors = <<>>
    /\ history = <<>>

suffix_lower(sfx) == IF sfx = ".TEX" THEN ".tex" ELSE sfx

\* The extension check left out.
ExtensionUnchecked(sfx) == TRUE

\* tex_path.suffix.lower() == '.tex'
HasTexExtension(sfx) == suffix_lower(sfx) = ".tex"

RejectMissingFile ==
    /\ pc = "call"
    /\ ~tex_exists
    /\ pc' = "raised"
    /\ error' = "FileNotFoundError"
    /\ UNCHANGED <<argVars, temp_dir, pdf_file, log_file_exists, log_file, log_bound,
                   log_content, pass_num, returncode, output_pdf, errors, history>>
    /\ UNCHANGED <<escVars, clsVars, emVars, engVars>>

RejectExtension ==
    /\ pc = "call"
    /\ tex_exists
    /\ ~HasTexExtension(tex_suffix)
    /\ pc' = "raised"
    /\ error' = "ValueError"
    /\ UNCHANGED <<argVars, temp_dir, pdf_file, log_file_exists, log_file, log_bound,
                   log_content, pass_num, returncode, output_pdf, errors, history>>
    /\ UNCHANGED <<escVars, clsVars, emVars, engVars>>

\* with tempfile.TemporaryDirectory() as temp_dir
CreateScratch ==
    /\ pc = "call"
    /\ tex_exists
    /\ HasTexExtension(tex_suffix)
    /\ temp_dir' = "exists"
    /\ pc' = "setup"
    /\ UNCHANGED <<argVars, pdf_file, log_file_exists, log_file, log_bound, log_content,
                   pass_num, returncode, output_pdf, error, errors, history>>
    /\ UNCHANGED <<escVars, clsVars, emVars, engVars>>

\* shutil.copy2 of the .tex file raises.
CopyTexFails ==
    /\ pc = "setup"
    /\ RaiseInScratch("CopyTexFailed")
    /\ UNCHANGED <<argVars, log_bound, log_content, pass_num, returncode, output_pdf,
                   errors, history>>
    /\ UNCHANGED <<escVars, clsVars, emVars, engVars>>

\* The .tex copy and _copy_additional_files; a sibling <stem>.pdf is in the
\* allow-list and lands on pdf_file unless its copy fails (swallowed).
\* Then the for statement: its body runs only if max_passes >= 1.
ScratchSetup(sibling_copied) ==
    /\ pc = "setup"
    /\ sibling_copied => sibling_pdf
    /\ pdf_file' = IF sibling_copied THEN "sibling" ELSE "absent"
    /\ IF max_passes >= 1
       THEN pass_num' = 1 /\ pc' = "run"
       ELSE pass_num' = pass_num /\ pc' = "artifact"
    /\ UNCHANGED <<argVars, temp_dir, log_file_exists, log_file, log_bound, log_content,
                   returncode, output_pdf, error, errors, history>>
    /\ UNCHANGED <<escVars, clsVars, emVars, engVars>>

\* _run_latex_command returns: the engine exited with rc, having written (or
\* not) a log and the artifact into the scratch directory.
EngineExits(rc, writes_log, log, writes_pdf) ==
    /\ pc = "run"
    /\ returncode' = rc
    /\ log_file_exists' = (log_file_exists \/ writes_log)
    /\ log_file' = IF writes_log THEN log ELSE log_file
    /\ pdf_file' = IF writes_pdf THEN "engine" ELSE pdf_file
    /\ history' = Append(history, [kind |-> "exit", rc |-> rc, rerun |-> FALSE,
                                   pdf |-> pdf_file'])
    /\ pc' = "ran"
    /\ UNCHANGED <<argVars, temp_dir, log_bound, log_content, pass_num, output_pdf,
                   error, errors>>
    /\ UNCHANGED <<escVars, clsVars, emVars, engVars>>

\* The timeout swallowed: the pass is given up and the loop left.
EngineTimesOutSwallowed ==
    /\ pc = "run"
    /\ history' = Append(history, [kind |-> "timeout", rc |-> 0, rerun |-> FALSE,
                                   pdf |-> pdf_file])
    /\ pc' = "artifact"
    /\ UNCHANGED <<argVars, temp_dir, pdf_file, log_file_exists, log_file, log_bound,
                   log_content, pass_num, returncode, output_pdf, error, errors>>
    /\ UNCHANGED <<escVars, clsVars, emVars, engVars>>

\* subprocess.TimeoutExpired
EngineTimesOut ==
    /\ pc = "run"
    /\ history' = Append(history, [kind |-> "timeout", rc |-> 0, rerun |-> FALSE,
                                   pdf |-> pdf_file])
    /\ RaiseInScratch("Timeout")
    /\ UNCHANGED <<argVars, log_bound, log_content, pass_num, returncode, output_pdf,
                   errors>>
    /\ UNCHANGED <<escVars, clsVars, emVars, engVars>>

\* any other exception of subprocess.run
EngineSpawnFails ==
    /\ pc = "run"
    /\ history' = Append(history, [kind |-> "spawn", rc |-> 0, rerun |-> FALSE,
                                   pdf |-> pdf_file])
    /\ RaiseInScratch("FailedToRun")
    /\ UNCHANGED <<argVars, log_bound, log_content, pass_num, returncode, output_pdf,
                   errors>>
    /\ UNCHANGED <<escVars, clsVars, emVars, engVars>>

\* "Read log file if it exists"; an unreadable log is read as "".
ReadLog(readable) ==
    /\ pc = "ran"
    /\ log_bound' = TRUE
    /\ log_content' = IF log_file_exists /\ readable THEN log_file ELSE <<>>
    /\ history' = [history EXCEPT ![Len(history)].rerun = needs_multiple_passes(log_content')]
    /\ pc' = "log_read"
    /\ UNCHANGED <<argVars, temp_dir, pdf_file, log_file_exists, log_file, pass_num,
                   returncode, output_pdf, error, errors>>
    /\ UNCHANGED <<escVars, clsVars, emVars, engVars>>

\* The error check of the pass comes first, the rerun check second.
RerunBeforeErrorCheck(rc, n, maxp, log) ==
    rc # 0 /\ ~(n < maxp /\ needs_multiple_passes(log))

CompilationAborts(rc, n, maxp, log) == rc # 0

\* "Check if we need another pass"
AnotherPassAlways(n, maxp, log) == n < maxp

AnotherPassNoLimit(n, maxp, log) == needs_multiple_passes(log)

AnotherPass(n, maxp, log) == n < maxp /\ needs_multiple_passes(log)

\* The artifact of a failed pass salvaged to the destination before raising.
FailCompilationSalvages ==
    /\ pc = "log_read"
    /\ CompilationAborts(returncode, pass_num, max_passes, log_content)
    /\ errors' = parse_latex_errors(log_content)
    /\ output_pdf' = IF pdf_file # "absent" THEN pdf_file ELSE output_pdf
    /\ RaiseInScratch("CompilationFailed")
    /\ UNCHANGED <<argVars, log_bound, log_content, pass_num, returncode, history>>
    /\ UNCHANGED <<escVars, clsVars, emVars, engVars>>

FailCompilation ==
    /\ pc = "log_read"
    /\ CompilationAborts(returncode, pass_num, max_passes, log_content)
    /\ errors' = parse_latex_errors(log_content)
    /\ RaiseInScratch("CompilationFailed")
    /\ UNCHANGED <<argVars, log_bound, log_content, pass_num, returncode, output_pdf,
                   history>>
    /\ UNCHANGED <<escVars, clsVars, emVars, engVars>>

NextPass ==
    /\ pc = "log_read"
    /\ ~CompilationAborts(returncode, pass_num, max_passes, log_content)
    /\ AnotherPass(pass_num, max_passes, log_content)
    /\ pass_num' = pass_num + 1
    /\ pc' = "run"
    /\ UNCHANGED <<argVars, temp_dir, pdf_file, log_file_exists, log_file, log_bound,
                   log_content, returncode, output_pdf, error, errors, history>>
    /\ UNCHANGED <<escVars, clsVars, emVars, engVars>>

LeaveLoop ==
    /\ pc = "log_read"
    /\ ~CompilationAborts(returncode, pass_num, max_passes, log_content)
    /\ ~AnotherPass(pass_num, max_passes, log_content)
    /\ pc' = "artifact"
    /\ UNCHANGED <<argVars, temp_dir, pdf_file, log_file_exists, log_file, log_bound,
                   log_content, pass_num, returncode, output_pdf, error, errors, history>>
    /\ UNCHANGED <<escVars, clsVars, emVars, engVars>>

\* "Check if PDF was created"
ArtifactCheckSkipped(f) == TRUE

ArtifactExists(f) == f # "absent"

NoOutput ==
    /\ pc = "artifact"
    /\ ~ArtifactExists(pdf_file)
    /\ RaiseInScratch("NoOutputProduced")
    /\ UNCHANGED <<argVars, log_bound, log_content, pass_num, returncode, output_pdf,
                   errors, history>>
    /\ UNCHANGED <<escVars, clsVars, emVars, engVars>>

\* shutil.copy2(pdf_file, output_pdf)
CopyArtifact ==
    /\ pc = "artifact"
    /\ ArtifactExists(pdf_file)
    /\ output_pdf' = pdf_file
    /\ pc' = "copied"
    /\ UNCHANGED <<argVars, temp_dir, pdf_file, log_file_exists, log_file, log_bound,
                   log_content, pass_num, returncode, error, errors, history>>
    /\ UNCHANGED <<escVars, clsVars, emVars, engVars>>

\* The copy raises; the destination is untouched or holds a partial file.
CopyArtifactFails(partial) ==
    /\ pc = "artifact"
    /\ ArtifactExists(pdf_file)
    /\ output_pdf' = IF partial THEN "partial" ELSE output_pdf
    /\ RaiseInScratch("CopyFailed")
    /\ UNCHANGED <<argVars, log_bound, log_content, pass_num, returncode, errors, history>>
    /\ UNCHANGED <<escVars, clsVars, emVars, engVars>>

\* "Show warnings if verbose", leaving the with block, return output_pdf.
ReturnPdf ==
    /\ pc = "copied"
    /\ verbose => log_bound
    /\ pc' = "returned"
    /\ temp_dir' = Teardown(temp_dir)
    /\ pdf_file' = "absent"
    /\ log_file_exists' = FALSE
    /\ log_file' = <<>>
    /\ UNCHANGED <<argVars, log_bound, log_content, pass_num, returncode, output_pdf,
                   error, errors, history>>
    /\ UNCHANGED <<escVars, clsVars, emVars, engVars>>

\* verbose with no pass run: log_content was never assigned.
UnboundLog ==
    /\ pc = "copied"
    /\ verbose /\ ~log_bound
    /\ RaiseInScratch("UnboundLocalError")
    /\ UNCHANGED <<argVars, log_bound, log_content, pass_num, returncode, output_pdf,
                   errors, history>>
    /\ UNCHANGED <<escVars, clsVars, emVars, engVars>>

PdfNext ==
    \/ RejectMissingFile
    \/ RejectExtension
    \/ CreateScratch
    \/ CopyTexFails
    \/ \E sc \in BOOLEAN : ScratchSetup(sc)
    \/ \E rc \in ExitCodes, wl \in BOOLEAN, log \in LogPool, wp \in BOOLEAN :
           EngineExits(rc, wl, log, wp)
    \/ EngineTimesOut
    \/ EngineSpawnFails
    \/ \E r \in BOOLEAN : ReadLog(r)
    \/ FailCompilation
    \/ NextPass
    \/ LeaveLoop
    \/ NoOutput
    \/ CopyArtifact
    \/ \E partial \in BOOLEAN : CopyArtifactFails(partial)
    \/ ReturnPdf
    \/ UnboundLog

-----------------------------------------------------------------------------
(* Compilation properties *)

Terminal == pc \in {"returned", "raised"}

ExitedZero(h) == h.kind = "exit" /\ h.rc = 0

C3_AbortOnNonzeroExit ==
    \A n \in 1..Len(history) :
        (history[n].kind = "exit" /\ history[n].rc # 0) =>
            /\ n = Len(history)
            /\ pc \in {"ran", "log_read", "raised"}
            /\ pc = "raised" => error = "CompilationFailed"
            /\ output_pdf = "unchanged"

C3_Witness ==
    /\ pc = "raised"
    /\ error = "CompilationFailed"
    /\ history[Len(history)].rerun
    /\ pass_num < max_passes

\* C4: pass n+1 is invoked iff pass n exited with code 0, the log read after
\* it contains a rerun indicator and n < max_passes; a rerun indicator on
\* pass 1 and none on pass 2 (exit code 0, artifact produced, copy done)
\* gives exactly 2 passes and success.
C4_NextPassIff ==
    /\ \A n \in 1..(Len(history) - 1) :
           ExitedZero(history[n]) /\ history[n].rerun /\ n < max_passes
    /\ (pc \in {"artifact", "copied", "returned", "raised"} /\ history # <<>>) =>
           ~ ( /\ ExitedZero(history[Len(history)])
               /\ history[Len(history)].rerun
               /\ Len(history) < max_passes )
    /\ ( /\ Terminal
         /\ Len(history) >= 2
         /\ ExitedZero(history[2]) /\ ~history[2].rerun
         /\ history[2].pdf # "absent"
         /\ error # "CopyFailed" ) =>
           (Len(history) = 2 /\ pc = "returned")

C4_Witness ==
    /\ pc = "returned"
    /\ max_passes = 3
    /\ Len(history) = 2
    /\ history[1].rerun
    /\ ~history[2].rerun

AllRerun ==
    /\ history # <<>>
    /\ \A n \in 1..Len(history) : ExitedZero(history[n]) /\ history[n].rerun

\* C5: the engine is invoked at most max_passes times; when every pass exits
\* with code 0 and every log holds a rerun indicator the loop ends after
\* exactly max_passes passes and the call goes on to the artifact check and
\* the copy: it succeeds when the artifact is there and the copy goes
\* through, and never fails for lack of convergence.
C5_PassesBounded ==
    /\ Len(history) <= max_passes
    /\ (Terminal /\ AllRerun) =>
           /\ Len(history) = max_passes
           /\ error \in {"none", "NoOutputProduced", "CopyFailed"}
           /\ (history[Len(history)].pdf # "absent" /\ error # "CopyFailed") =>
                  pc = "returned"

C5_Witness ==
    /\ pc = "returned"
    /\ AllRerun
    /\ max_passes >= 2
    /\ Len(history) = max_passes

\* C6: when the loop has ended with every pass that ran at exit code 0 and
\* the artifact is absent from the scratch directory, the call raises the
\* no-output error and leaves the destination path alone.
C6_NoOutputProduced ==
    [][ (pc = "artifact" /\ pdf_file = "absent") =>
            /\ \A n \in 1..Len(history) : ExitedZero(history[n])
            /\ pc' = "raised"
            /\ error' = "NoOutputProduced"
            /\ output_pdf = "unchanged"
            /\ output_pdf' = output_pdf ]_vars

C6_Witness ==
    /\ pc = "raised"
    /\ error = "NoOutputProduced"
    /\ Len(history) >= 1
    /\ output_pdf = "unchanged"

\* C12: a pass that exceeds the timeout is the last pass invoked; the call
\* has raised the timeout error with that very step, no pass is retried or
\* started after it, and the destination path has not been written.
C12_TimeoutFailsCall ==
    \A n \in 1..Len(history) :
        history[n].kind = "timeout" =>
            /\ n = Len(history)
            /\ pc = "raised"
            /\ error = "Timeout"
            /\ output_pdf = "unchanged"
            /\ pass_num = n

C12_Witness ==
    /\ pc = "raised"
    /\ error = "Timeout"
    /\ Len(history) = 2
    /\ history[2].kind = "timeout"
    /\ history[1].pdf = "engine"
    /\ max_passes = 3

\* C13: an existing input file without the .tex extension (in any letter
\* case) makes the call raise the invalid-extension error as its first and
\* only step: no scratch directory, no pass, no write of the destination.
C13_InvalidExtension ==
    (tex_exists /\ tex_suffix \notin {".tex", ".TEX"} /\ pc # "call") =>
        /\ pc = "raised"
        /\ error = "ValueError"
        /\ temp_dir = "none"
        /\ history = <<>>
        /\ output_pdf = "unchanged"
        /\ ~log_bound

C13_Witness ==
    /\ pc = "raised"
    /\ error = "ValueError"
    /\ tex_exists
    /\ tex_suffix = ".txt"

\* Positions of the log lines that start with '!' or contain 'Error:'.
TriggerLines(lines) ==
    {i \in 1..Len(lines) :
        \/ (lines[i] # <<>> /\ lines[i][1] = "!")
        \/ Contains(lines[i], <<"E", "r", "r", "o", "r", ":">>)}

Min(a, b) == IF a < b THEN a ELSE b

Max(a, b) == IF a > b THEN a ELSE b

CompilationFailed == pc = "raised" /\ error = "CompilationFailed"

\* C15 as stated: one block per triggering line, in log order, each made of
\* the 2 lines before the triggering line, that line, and up to 2 lines
\* after it.
C15_TwoLeadingLines ==
    CompilationFailed =>
        LET lines == Split(log_content, NL)
            trig  == TriggerLines(lines)
        IN  /\ Len(errors) = Cardinality(trig)
            /\ \A k \in 1..Len(errors) :
                   LET i == NthOf(trig, k)
                   IN  /\ i - 2 >= 1
                       /\ Split(errors[k], NL) =
                              SubSeq(lines, i - 2, Min(Len(lines), i + 2))

\* C15 amended: one block per triggering line, in log order, each made of
\* up to 2 lines before the triggering line (as many as the log has there),
\* that line, and up to 2 lines after it; a log with the line
\* '! Undefined control sequence.' gives a non-empty list holding that text.
C15_ErrorBlocks ==
    CompilationFailed =>
        LET lines == Split(log_content, NL)
            trig  == TriggerLines(lines)
        IN  /\ Len(errors) = Cardinality(trig)
            /\ \A k \in 1..Len(errors) :
                   LET i == NthOf(trig, k)
                       block == Split(errors[k], NL)
                   IN  /\ Len(block) = Min(2, i - 1) + 1 + Min(2, Len(lines) - i)
                       /\ block = SubSeq(lines, Max(1, i - 2), Min(Len(lines), i + 2))
                       /\ block[Min(2, i - 1) + 1] = lines[i]
            /\ (\E i \in 1..Len(lines) :
                    StartsWith(lines[i], Chars("! Undefined control sequence"))) =>
                   \E k \in 1..Len(errors) :
                       Contains(errors[k], Chars("! Undefined control sequence"))

C15_Witness ==
    /\ CompilationFailed
    /\ log_content = LogUndefined
    /\ Len(errors) = 1
    /\ Len(Split(errors[1], NL)) = 5

\* C20: whenever the call returns success, the file it copied to the
\* destination path was written into the scratch directory by an engine pass
\* of this call, never put there by the sibling-file copy of scratch setup.
C20_ArtifactFromEngine ==
    pc = "returned" => output_pdf = "engine"

\* The call is at or past shutil.copy2(pdf_file, output_pdf): the copy has
\* completed, or it is the copy (or a statement after it) that raised.
PastCopy ==
    \/ pc \in {"copied", "returned"}
    \/ pc = "raised" /\ error \in {"CopyFailed", "UnboundLocalError"}

\* C21: the destination path is written at most once per convert_to_pdf call,
\* and only after the pass loop has ended with no pass exiting nonzero or
\* timing out and the artifact check has passed; at every point before that,
\* and after every failure raised before that, the destination is unchanged.
C21_DestinationWrittenOnce ==
    /\ [](~PastCopy => output_pdf = "unchanged")
    /\ [][output_pdf' # output_pdf =>
              /\ output_pdf = "unchanged"
              /\ pc = "artifact"
              /\ pass_num = Len(history)
              /\ \A k \in 1..Len(history) : ExitedZero(history[k])
              /\ pdf_file # "absent"
              /\ PastCopy']_vars

C21_Witness ==
    /\ pc = "copied"
    /\ output_pdf = "engine"
    /\ Len(history) = 2
    /\ history[1].rerun
    /\ temp_dir = "exists"

\* C7: a compilation whose final log parses to a non-empty errors list is
\* never returned as success.
C7_ErrorsNeverSuccess ==
    (pc = "returned" /\ log_bound) => parse_latex_errors(log_content) = <<>>

-----------------------------------------------------------------------------
(* LaTeXToPDFConverter.__init__ and _check_latex_installation *)

supported_engines == <<"pdflatex", "xelatex", "lualatex">>

\* Engine names a caller may pass, and the binaries shutil.which may find.
EngineNames == {"pdflatex", "xelatex", "lualatex", "latex", "tectonic"}

IsInvocable(inv, eng) == eng \in inv

available_engines(inv) == SelectSeq(supported_engines, LAMBDA eng : IsInvocable(inv, eng))

\* The last available engine taken instead of the first.
LastAvailable(avail) == avail[Len(avail)]

\* available_engines[0]
FirstAvailable(avail) == avail[1]

\* self.engine = engine, before the installation check
EngInit ==
    /\ eng_pc = "init"
    /\ engine_arg \in EngineNames
    /\ engine = engine_arg
    /\ invocable \in SUBSET EngineNames

KeepEngine ==
    /\ eng_pc = "init"
    /\ IsInvocable(invocable, engine)
    /\ eng_pc' = "constructed"
    /\ UNCHANGED <<engine_arg, engine, invocable>>
    /\ UNCHANGED <<escVars, clsVars, emVars, pdfVars>>

FallBackEngine ==
    /\ eng_pc = "init"
    /\ ~IsInvocable(invocable, engine)
    /\ available_engines(invocable) # <<>>
    /\ engine' = FirstAvailable(available_engines(invocable))
    /\ eng_pc' = "constructed"
    /\ UNCHANGED <<engine_arg, invocable>>
    /\ UNCHANGED <<escVars, clsVars, emVars, pdfVars>>

EngineNotFound ==
    /\ eng_pc = "init"
    /\ ~IsInvocable(invocable, engine)
    /\ available_engines(invocable) = <<>>
    /\ eng_pc' = "failed"
    /\ UNCHANGED <<engine_arg, engine, invocable>>
    /\ UNCHANGED <<escVars, clsVars, emVars, pdfVars>>

EngNext ==
    \/ KeepEngine
    \/ FallBackEngine
    \/ EngineNotFound

-----------------------------------------------------------------------------
(* Engine resolution properties *)

CandidateOrder == <<"pdflatex", "xelatex", "lualatex">>

\* C14: a requested engine that is invocable is kept; one that is not is
\* replaced by the first invocable candidate in the order pdflatex, xelatex,
\* lualatex; construction fails exactly when neither the requested engine nor
\* any candidate is invocable; a constructed converter's engine is invocable.
C14_EngineResolution ==
    /\ eng_pc = "constructed" =>
           /\ engine \in invocable
           /\ engine_arg \in invocable => engine = engine_arg
           /\ engine_arg \notin invocable =>
                  \E k \in 1..3 :
                      /\ engine = CandidateOrder[k]
                      /\ \A j \in 1..(k - 1) : CandidateOrder[j] \notin invocable
    /\ eng_pc = "failed" =>
           /\ engine_arg \notin invocable
           /\ \A k \in 1..3 : CandidateOrder[k] \notin invocable

C14_Witness ==
    /\ eng_pc = "constructed"
    /\ engine_arg = "pdflatex"
    /\ engine = "xelatex"
    /\ "lualatex" \in invocable

-----------------------------------------------------------------------------
(* Specifications *)

EscIdle == esc_pc = "idle" /\ esc_text = <<>> /\ esc_out = <<>>

ClsIdle == cls_pc = "idle" /\ cls_text = <<>> /\ structured_content = <<>>

EmIdle ==
    /\ em_pc = "idle" /\ em_blocks = <<>> /\ in_itemize = FALSE /\ in_subitemize = FALSE
    /\ latex_content = <<>> /\ em_result = <<>>

PdfIdle ==
    /\ pc = "idle" /\ max_passes = 0 /\ verbose = FALSE /\ tex_exists = FALSE
    /\ tex_suffix = ".tex" /\ sibling_pdf = FALSE /\ temp_dir = "none"
    /\ pdf_file = "absent" /\ log_file_exists = FALSE /\ log_file = <<>>
    /\ log_bound = FALSE /\ log_content = <<>> /\ pass_num = 0 /\ returncode = 0
    /\ output_pdf = "unchanged" /\ error = "none" /\ errors = <<>> /\ history = <<>>

EngIdle ==
    eng_pc = "idle" /\ engine_arg = "pdflatex" /\ engine = "pdflatex" /\ invocable = {}

InitEscape == EscInit /\ ClsIdle /\ EmIdle /\ PdfIdle /\ EngIdle

NextEscape == EscapeCall

SpecEscape == InitEscape /\ [][NextEscape]_vars

InitClassify == ClsInit /\ EscIdle /\ EmIdle /\ PdfIdle /\ EngIdle

NextClassify == IdentifyCall

SpecClassify == InitClassify /\ [][NextClassify]_vars

InitEmit == EmInit /\ EscIdle /\ ClsIdle /\ PdfIdle /\ EngIdle

SpecEmit == InitEmit /\ [][EmNext]_vars

InitPdf == PdfInit /\ EscIdle /\ ClsIdle /\ EmIdle /\ EngIdle

SpecPdf == InitPdf /\ [][PdfNext]_vars

InitEngine == EngInit /\ EscIdle /\ ClsIdle /\ EmIdle /\ PdfIdle

SpecEngine == InitEngine /\ [][EngNext]_vars

=============================================================================
